---- MODULE Spec2Model ----
(***************************************************************************)
(* Person/Address API (src/main.py) over the Pydantic models of            *)
(* src/models/address.py and src/models/person.py.                         *)
(*                                                                         *)
(* JSON values carry their type: Str(s), None, List(l); an object is a     *)
(* function from its keys to values.  A key that is absent from a body is  *)
(* absent from the function's DOMAIN, so "omitted" and "explicitly null"   *)
(* are different bodies.                                                   *)
(* A Python dict is a sequence of <<key, value>> entries in insertion      *)
(* order.  Requests are served one at a time (spec section 5).             *)
(***************************************************************************)
EXTENDS Integers, Sequences, FiniteSets, TLC

VARIABLES
    addresses,  \* main.py: addresses: Dict[UUID, AddressRead]
    persons,    \* main.py: persons: Dict[UUID, PersonRead]
    now,        \* what datetime.utcnow reads; the clock has moved on whenever
                \* it is read for a later request
    uuids,      \* how many identifiers uuid4 has generated
    request,    \* the request being answered
    response,   \* its response
    created     \* history: the successful creates whose entry was not
                \* written since

vars == <<addresses, persons, now, uuids, request, response, created>>

(* ------------------------------ bounds --------------------------------- *)

\* how many identifiers uuid4 hands out in one behaviour of Spec
MaxUuid == 1

\* how many identifiers uuid4 hands out in one behaviour of ListSpec
MaxListUuid == 2

\* how many records of CollisionSpec are lost to a repeated identifier
MaxRepeat == 1

\* the longest run of letters, and of digits, in the strings that
\* ValidatorSpec gives to the patterns
MaxRun == 5

(* --------------------------- JSON / Python values ---------------------- *)

\* Every value carries its type: a str (a JSON string), None (JSON null), a
\* list (a JSON array), a number, and the objects parsing makes: a UUID, a
\* date, a datetime.
Str(s) == [str |-> s]
None == [none |-> TRUE]
List(l) == [list |-> l]
Number(n) == [number |-> n]
UUID(u) == [uuid |-> u]
Date(d) == [date |-> d]
Datetime(t) == [datetime |-> t]

IsStr(v) == DOMAIN v = {"str"}
IsList(v) == DOMAIN v = {"list"}
IsUUID(v) == DOMAIN v = {"uuid"}
IsDate(v) == DOMAIN v = {"date"}
IsDatetime(v) == DOMAIN v = {"datetime"}

EmptyBody == [k \in {} |-> None]

\* identifiers a client can make up
ClientUuids == {"c1"}

\* uuid4 when n identifiers were generated before: never one generated
\* before, never one a client made up
uuid4(n) == UUID("u" \o ToString(n + 1))

\* identifiers the clients of ListSpec make up
ListClientUuids == {"c1", "c2"}

\* the strings that are a UUID
UuidStrings ==
    ClientUuids \cup ListClientUuids
    \cup {uuid4(n).uuid : n \in 0..(MaxUuid - 1)}
    \cup {uuid4(n).uuid : n \in 0..(MaxListUuid - 1)}

\* the identifiers of the paths that are requested
Uuids == {UUID(u) : u \in ClientUuids} \cup {uuid4(n) : n \in 0..(MaxUuid - 1)}
ListUuids ==
    {UUID(u) : u \in ListClientUuids} \cup {uuid4(n) : n \in 0..(MaxListUuid - 1)}

\* identifiers the server has generated so far
Issued == {uuid4(n).uuid : n \in 0..(uuids - 1)}

\* A character is a string of length one, but for two that are written by
\* their code point: "U+0663" is ARABIC-INDIC DIGIT THREE, a decimal digit
\* that is not ASCII, and "U+000A" is the line feed.
Run(c, n) == [i \in 1..n |-> c]

\* the string of a sequence of characters
RECURSIVE Text(_)
Text(chars) == IF chars = <<>> THEN "" ELSE Head(chars) \o Text(Tail(chars))

\* the strings ValidatorSpec gives to the patterns: a run of letters of one
\* case, then a run of digits of one script, with or without a character
\* before and a line feed after
PatternSamples ==
    {before \o Run(letter, k) \o Run(digit, m) \o after :
        before \in {<<>>, <<"-">>}, letter \in {"a", "A"}, k \in 0..MaxRun,
        digit \in {"1", "U+0663"}, m \in 0..MaxRun,
        after \in {<<>>, <<"U+000A">>}}

PatternStrings == {Text(chars) : chars \in PatternSamples}

CharsOf ==
    [s \in PatternStrings |-> CHOOSE chars \in PatternSamples : Text(chars) = s]

\* characters of the sample strings that are matched against a pattern
Chars(s) ==
    CASE s = "ab1234" -> <<"a", "b", "1", "2", "3", "4">>
      [] s = "xyz9" -> <<"x", "y", "z", "9">>
      [] s = "AB1234" -> <<"A", "B", "1", "2", "3", "4">>
      [] s = "COMS4153" -> <<"C", "O", "M", "S", "4", "1", "5", "3">>
      [] s = "coms4153" -> <<"c", "o", "m", "s", "4", "1", "5", "3">>
      [] s = "ada@example.com" -> <<"a", "d", "a", "@", "e", "x", ".", "c", "o", "m">>
      [] s = "not-an-email" -> <<"n", "o", "t", "-", "a", "n">>
      [] s \in PatternStrings -> CharsOf[s]
      [] OTHER -> <<>>

\* [a-z] and [A-Z], as far as the sample strings go
Lower == {"a", "b", "c", "d", "e", "m", "n", "o", "s", "t", "x", "y", "z"}
Upper == {"A", "B", "C", "M", "O", "S"}

\* \d: the pattern is a Unicode pattern, in which \d is a decimal digit of any
\* script
Digit == {"0", "1", "2", "3", "4", "5", "6", "7", "8", "9", "U+0663"}

\* mutant: the pattern without its anchors, which matches inside the string
UNIType_unanchored(v) ==
    LET s == Chars(v)
    IN \E k \in 2..3, m \in 1..4, from \in 0..Len(s) :
          /\ from + k + m <= Len(s)
          /\ \A i \in (from + 1)..(from + k) : s[i] \in Lower
          /\ \A i \in (from + k + 1)..(from + k + m) : s[i] \in Digit

\* UNIType: ^[a-z]{2,3}\d{1,4}$
UNIType(v) ==
    LET s == Chars(v)
    IN \E k \in 2..3, m \in 1..4 :
          /\ Len(s) = k + m
          /\ \A i \in 1..k : s[i] \in Lower
          /\ \A i \in (k + 1)..(k + m) : s[i] \in Digit

\* CourseCode: ^[A-Z]{4}\d{4}$
CourseCode(v) ==
    LET s == Chars(v)
    IN /\ Len(s) = 8
       /\ \A i \in 1..4 : s[i] \in Upper
       /\ \A i \in 5..8 : s[i] \in Digit

\* EmailStr: local-part @ domain, the domain with a dot in it
EmailStr(v) ==
    LET s == Chars(v)
    IN \E a \in 2..Len(s) :
          /\ s[a] = "@"
          /\ \A i \in 1..Len(s) : s[i] = "@" => i = a
          /\ \E d \in (a + 2)..(Len(s) - 1) : s[d] = "."

\* the strings that are an ISO date
Dates == {"1815-12-10"}

(* ------------------------------ the models ----------------------------- *)

\* a field: its type and what it holds when the data has no such key
Field(type, default) == [type |-> type, default |-> default]

AddressBase ==
    [id |-> Field("UUID", "uuid4"),
     street |-> Field("str", "required"),
     city |-> Field("str", "required"),
     state |-> Field("Optional[str]", "None"),
     postal_code |-> Field("Optional[str]", "None"),
     country |-> Field("str", "required")]

AddressCreate == AddressBase

AddressUpdate ==
    [street |-> Field("Optional[str]", "None"),
     city |-> Field("Optional[str]", "None"),
     state |-> Field("Optional[str]", "None"),
     postal_code |-> Field("Optional[str]", "None"),
     country |-> Field("Optional[str]", "None")]

AddressRead ==
    AddressBase @@
    [created_at |-> Field("datetime", "utcnow"),
     updated_at |-> Field("datetime", "utcnow")]

\* the scalar types: what each accepts
ScalarOK(type, v) ==
    CASE type = "UUID" -> IsUUID(v) \/ (IsStr(v) /\ v.str \in UuidStrings)
      [] type = "str" -> IsStr(v)
      [] type = "Optional[str]" -> v = None \/ IsStr(v)
      [] type = "UNIType" -> IsStr(v) /\ UNIType(v.str)
      [] type = "Optional[UNIType]" -> v = None \/ (IsStr(v) /\ UNIType(v.str))
      [] type = "EmailStr" -> IsStr(v) /\ EmailStr(v.str)
      [] type = "Optional[EmailStr]" -> v = None \/ (IsStr(v) /\ EmailStr(v.str))
      [] type = "Optional[date]" ->
            v = None \/ IsDate(v) \/ (IsStr(v) /\ v.str \in Dates)
      [] type = "datetime" -> IsDatetime(v)
      [] type = "CourseCode" -> IsStr(v) /\ CourseCode(v.str)
      [] type = "Optional[CourseCode]" -> v = None \/ (IsStr(v) /\ CourseCode(v.str))
      [] type = "int" -> DOMAIN v = {"number"}
      [] type = "Optional[int]" -> v = None \/ DOMAIN v = {"number"}
      [] OTHER -> FALSE

\* the scalar types: what each makes of a value it accepts
Parse(type, v) ==
    CASE type = "UUID" /\ IsStr(v) -> UUID(v.str)
      [] type = "Optional[date]" /\ IsStr(v) -> Date(v.str)
      [] OTHER -> v

\* the fields of an address-shaped model that data (a dict) fails on
AddressErrors(model, data) ==
    {f \in DOMAIN model :
        IF f \in DOMAIN data
        THEN ~ScalarOK(model[f].type, data[f])
        ELSE model[f].default = "required"}

TypeOK(type, v) ==
    CASE type = "List[AddressBase]" ->
            IsList(v) /\ \A i \in DOMAIN v.list :
                            AddressErrors(AddressBase, v.list[i]) = {}
      [] type = "Optional[List[AddressBase]]" ->
            \/ v = None
            \/ IsList(v) /\ \A i \in DOMAIN v.list :
                               AddressErrors(AddressBase, v.list[i]) = {}
      [] OTHER -> ScalarOK(type, v)

PersonBase ==
    [uni |-> Field("UNIType", "required"),
     first_name |-> Field("str", "required"),
     last_name |-> Field("str", "required"),
     email |-> Field("EmailStr", "required"),
     phone |-> Field("Optional[str]", "None"),
     birth_date |-> Field("Optional[date]", "None"),
     addresses |-> Field("List[AddressBase]", "list")]

PersonCreate == PersonBase

PersonUpdate ==
    [uni |-> Field("Optional[UNIType]", "None"),
     first_name |-> Field("Optional[str]", "None"),
     last_name |-> Field("Optional[str]", "None"),
     email |-> Field("Optional[EmailStr]", "None"),
     phone |-> Field("Optional[str]", "None"),
     birth_date |-> Field("Optional[date]", "None"),
     addresses |-> Field("Optional[List[AddressBase]]", "None")]

PersonRead ==
    PersonBase @@
    [id |-> Field("UUID", "uuid4"),
     created_at |-> Field("datetime", "utcnow"),
     updated_at |-> Field("datetime", "utcnow")]

CourseBase ==
    [course_code |-> Field("CourseCode", "required"),
     title |-> Field("str", "required"),
     description |-> Field("Optional[str]", "None"),
     credits |-> Field("int", "required"),
     instructor |-> Field("Optional[str]", "None")]

CourseCreate == CourseBase

CourseUpdate ==
    [course_code |-> Field("Optional[CourseCode]", "None"),
     title |-> Field("Optional[str]", "None"),
     description |-> Field("Optional[str]", "None"),
     credits |-> Field("Optional[int]", "None"),
     instructor |-> Field("Optional[str]", "None")]

\* the fields of a model that data (a dict) fails on: a key of the wrong type,
\* or a required key that is missing; keys the model does not declare are
\* ignored
Errors(model, data) ==
    {f \in DOMAIN model :
        IF f \in DOMAIN data
        THEN ~TypeOK(model[f].type, data[f])
        ELSE model[f].default = "required"}

\* the embedded addresses of data that carry no id of their own
HasList(data) == "addresses" \in DOMAIN data /\ IsList(data["addresses"])
Missing(list, upto) == Cardinality({j \in 1..upto : "id" \notin DOMAIN list[j]})
Generated(data) ==
    IF HasList(data)
    THEN Missing(data["addresses"].list, Len(data["addresses"].list))
    ELSE 0

\* default and default_factory, at clock reading t and with n identifiers
\* generated before
Default(default, t, n) ==
    CASE default = "uuid4" -> uuid4(n)
      [] default = "utcnow" -> Datetime(t)
      [] default = "list" -> List(<<>>)
      [] OTHER -> None

\* Model(**data) for valid data of an address-shaped model
NewAddress(model, data, t, n) ==
    [f \in DOMAIN model |->
        IF f \in DOMAIN data
        THEN Parse(model[f].type, data[f])
        ELSE Default(model[f].default, t, n)]

\* Model(**data) for valid data: the declared fields, each from the data or
\* from its default; an embedded address becomes an AddressBase
New(model, data, t, n) ==
    [f \in DOMAIN model |->
        IF f \in DOMAIN data
        THEN IF f = "addresses" /\ IsList(data[f])
             THEN List([i \in DOMAIN data[f].list |->
                          NewAddress(AddressBase, data[f].list[i], t,
                                     n + Missing(data[f].list, i - 1))])
             ELSE Parse(model[f].type, data[f])
        ELSE Default(model[f].default, t, n + Generated(data))]

\* mutant: model_dump(exclude_none=True), which drops an explicit null
model_dump_exclude_none(model, data) ==
    [f \in {g \in DOMAIN data \cap DOMAIN model : data[g] # None} |->
        Parse(model[f].type, data[f])]

\* mutant: the keys the model does not declare are kept (extra="allow")
model_dump_allow_extra(model, data) ==
    [f \in DOMAIN data |->
        IF f \in DOMAIN model THEN Parse(model[f].type, data[f]) ELSE data[f]]

\* model_dump(exclude_unset=True) of Model(**data): only the keys that were
\* set, in embedded addresses too
model_dump_exclude_unset(model, data) ==
    [f \in DOMAIN data \cap DOMAIN model |->
        IF f = "addresses" /\ IsList(data[f])
        THEN List([i \in DOMAIN data[f].list |->
                     [g \in DOMAIN data[f].list[i] \cap DOMAIN AddressBase |->
                         Parse(AddressBase[g].type, data[f].list[i][g])]])
        ELSE Parse(model[f].type, data[f])]

(* ------------------------------ dict ----------------------------------- *)

Keys(dict) == {dict[i][1] : i \in DOMAIN dict}
Get(dict, key) == dict[CHOOSE i \in DOMAIN dict : dict[i][1] = key][2]
\* mutant: the key is deleted and inserted again, so a present key goes last
Set_move_to_end(dict, key, value) ==
    Append(SelectSeq(dict, LAMBDA entry : entry[1] # key), <<key, value>>)

\* dict[key] = value: a new key goes last, a present key keeps its place
Set(dict, key, value) ==
    IF key \in Keys(dict)
    THEN [i \in DOMAIN dict |-> IF dict[i][1] = key THEN <<key, value>> ELSE dict[i]]
    ELSE Append(dict, <<key, value>>)
\* dict.update(other) on the dict of a record's fields
dict_update(stored, other) ==
    [f \in DOMAIN stored \cup DOMAIN other |->
        IF f \in DOMAIN other THEN other[f] ELSE stored[f]]

(* ------------------------- requests and responses ---------------------- *)

Response(status, detail, errors, body) ==
    [status |-> status, detail |-> detail, errors |-> errors, body |-> body]

HTTPException(status_code, detail) == Response(status_code, detail, {}, <<>>)

\* a body the parameter's model rejects never reaches the handler
RequestValidationError(errors) == Response(422, "Unprocessable Entity", errors, <<>>)

\* an exception that leaves the handler
InternalServerError == Response(500, "Internal Server Error", {}, <<>>)

\* Model(**data) outside a request: the instance, or pydantic's
\* ValidationError with the fields that failed
ValidationError(errors) == Response(0, "ValidationError", errors, <<>>)
Validated(instance) == Response(0, "", {}, <<instance>>)

NoRequest == [op |-> "none", id |-> None, body |-> EmptyBody]
NoResponse == Response(0, "", {}, <<>>)

Request(op, id, body) == [op |-> op, id |-> id, body |-> body]

Idle == request.op = "none"

(* ------------------------------ handlers ------------------------------- *)

\* mutant: no check for a present key, the entry is overwritten
create_address_overwrite(address) ==
    LET a == New(AddressCreate, address, now, uuids)
        stored == Set(addresses, a.id, New(AddressRead, a, now, uuids))
    IN [addresses |-> stored,
        response |-> Response(201, "", {}, <<Get(stored, a.id)>>)]

\* create_address(address: AddressCreate) for a body AddressCreate accepts
create_address(address) ==
    LET a == New(AddressCreate, address, now, uuids)
    IN IF a.id \in Keys(addresses)
       THEN [addresses |-> addresses,
             response |-> HTTPException(400, "Address with this ID already exists")]
       ELSE LET stored == Set(addresses, a.id, New(AddressRead, a, now, uuids))
            IN [addresses |-> stored,
                response |-> Response(201, "", {}, <<Get(stored, a.id)>>)]

\* mutant: the record is built again from the address fields for the response,
\* so that the timestamps are read from the clock
get_address_fresh_timestamps(address_id) ==
    IF address_id \notin Keys(addresses)
    THEN HTTPException(404, "Address not found")
    ELSE LET stored == Get(addresses, address_id)
         IN Response(200, "", {},
                     <<New(AddressRead, [f \in DOMAIN AddressBase |-> stored[f]],
                           now, uuids)>>)

get_address(address_id) ==
    IF address_id \notin Keys(addresses)
    THEN HTTPException(404, "Address not found")
    ELSE Response(200, "", {}, <<Get(addresses, address_id)>>)

\* mutant: the merged dict is stored before AddressRead validates it
update_address_store_first(address_id, body) ==
    IF address_id \notin Keys(addresses)
    THEN [addresses |-> addresses,
          response |-> HTTPException(404, "Address not found")]
    ELSE LET stored == dict_update(Get(addresses, address_id),
                                   model_dump_exclude_unset(AddressUpdate, body))
         IN IF Errors(AddressRead, stored) # {}
            THEN [addresses |-> Set(addresses, address_id, stored),
                  response |-> InternalServerError]
            ELSE LET new == Set(addresses, address_id,
                                New(AddressRead, stored, now, uuids))
                 IN [addresses |-> new,
                     response |-> Response(200, "", {}, <<Get(new, address_id)>>)]

\* mutant: the record is rebuilt from the address fields alone, so that the
\* timestamps are defaulted again
update_address_new_timestamps(address_id, body) ==
    IF address_id \notin Keys(addresses)
    THEN [addresses |-> addresses,
          response |-> HTTPException(404, "Address not found")]
    ELSE LET merged == dict_update(Get(addresses, address_id),
                                   model_dump_exclude_unset(AddressUpdate, body))
             stored == [f \in DOMAIN AddressBase |-> merged[f]]
         IN IF Errors(AddressRead, stored) # {}
            THEN [addresses |-> addresses, response |-> InternalServerError]
            ELSE LET new == Set(addresses, address_id,
                                New(AddressRead, stored, now, uuids))
                 IN [addresses |-> new,
                     response |-> Response(200, "", {}, <<Get(new, address_id)>>)]

\* mutant: no check for an absent key, the lookup raises KeyError
update_address_no_check(address_id, body) ==
    IF address_id \notin Keys(addresses)
    THEN [addresses |-> addresses, response |-> InternalServerError]
    ELSE LET stored == dict_update(Get(addresses, address_id),
                                   model_dump_exclude_unset(AddressUpdate, body))
         IN IF Errors(AddressRead, stored) # {}
            THEN [addresses |-> addresses, response |-> InternalServerError]
            ELSE LET new == Set(addresses, address_id,
                                New(AddressRead, stored, now, uuids))
                 IN [addresses |-> new,
                     response |-> Response(200, "", {}, <<Get(new, address_id)>>)]

\* update_address(address_id, update: AddressUpdate) for a body AddressUpdate
\* accepts
update_address(address_id, body) ==
    IF address_id \notin Keys(addresses)
    THEN [addresses |-> addresses,
          response |-> HTTPException(404, "Address not found")]
    ELSE LET stored == dict_update(Get(addresses, address_id),
                                   model_dump_exclude_unset(AddressUpdate, body))
         IN IF Errors(AddressRead, stored) # {}
            THEN [addresses |-> addresses, response |-> InternalServerError]
            ELSE LET new == Set(addresses, address_id,
                                New(AddressRead, stored, now, uuids))
                 IN [addresses |-> new,
                     response |-> Response(200, "", {}, <<Get(new, address_id)>>)]

\* mutant: the embedded addresses are left out of the dump
create_person_without_addresses(person) ==
    LET dump == New(PersonCreate, person, now, uuids)
        person_read == New(PersonRead,
                           [f \in DOMAIN dump \ {"addresses"} |-> dump[f]],
                           now, uuids + Generated(person))
        stored == Set(persons, person_read.id, person_read)
    IN [persons |-> stored, response |-> Response(201, "", {}, <<person_read>>)]

\* create_person(person: PersonCreate) for a body PersonCreate accepts
create_person(person) ==
    LET person_read == New(PersonRead, New(PersonCreate, person, now, uuids),
                           now, uuids + Generated(person))
        stored == Set(persons, person_read.id, person_read)
    IN [persons |-> stored, response |-> Response(201, "", {}, <<person_read>>)]

get_person(person_id) ==
    IF person_id \notin Keys(persons)
    THEN HTTPException(404, "Person not found")
    ELSE Response(200, "", {}, <<Get(persons, person_id)>>)

\* mutant: the merged dict is stored as it is, PersonRead does not see it
update_person_unvalidated(person_id, body) ==
    IF person_id \notin Keys(persons)
    THEN [persons |-> persons,
          response |-> HTTPException(404, "Person not found")]
    ELSE LET stored == dict_update(Get(persons, person_id),
                                   model_dump_exclude_unset(PersonUpdate, body))
             new == Set(persons, person_id, stored)
         IN [persons |-> new,
             response |-> Response(200, "", {}, <<Get(new, person_id)>>)]

\* update_person(person_id, update: PersonUpdate) for a body PersonUpdate
\* accepts
update_person(person_id, body) ==
    IF person_id \notin Keys(persons)
    THEN [persons |-> persons,
          response |-> HTTPException(404, "Person not found")]
    ELSE LET stored == dict_update(Get(persons, person_id),
                                   model_dump_exclude_unset(PersonUpdate, body))
         IN IF Errors(PersonRead, stored) # {}
            THEN [persons |-> persons, response |-> InternalServerError]
            ELSE LET new == Set(persons, person_id,
                                New(PersonRead, stored, now, uuids))
                 IN [persons |-> new,
                     response |-> Response(200, "", {}, <<Get(new, person_id)>>)]

\* list(dict.values()): the records in the order of the dict
dict_values(dict) == [i \in DOMAIN dict |-> dict[i][2]]

\* str(v) of a date or of None
str(v) == IF IsDate(v) THEN Str(v.date) ELSE Str("None")

\* if key is not None: results = [r for r in results if r.key == key]
Filter(results, query, key) ==
    IF key \in DOMAIN query
    THEN SelectSeq(results, LAMBDA r : r[key] = query[key])
    ELSE results

\* the same for birth_date, which is compared as str(p.birth_date)
FilterStr(results, query, key) ==
    IF key \in DOMAIN query
    THEN SelectSeq(results, LAMBDA r : str(r[key]) = query[key])
    ELSE results

\* any(addr.key == key for addr in p.addresses)
any(list, key, value) == \E i \in DOMAIN list : list[i][key] = value

\* the same for the embedded addresses: one of them has the value
FilterAny(results, query, key) ==
    IF key \in DOMAIN query
    THEN SelectSeq(results, LAMBDA p : any(p.addresses.list, key, query[key]))
    ELSE results

\* list_addresses(street, city, state, postal_code, country): query holds the
\* parameters that are not None
list_addresses(query) ==
    LET results == dict_values(addresses)
        by_street == Filter(results, query, "street")
        by_city == Filter(by_street, query, "city")
        by_state == Filter(by_city, query, "state")
        by_postal_code == Filter(by_state, query, "postal_code")
        by_country == Filter(by_postal_code, query, "country")
    IN Response(200, "", {}, by_country)

\* mutant: city and country are looked for in one and the same address
list_persons_same_address(query) ==
    LET results == dict_values(persons)
        by_uni == Filter(results, query, "uni")
        by_first_name == Filter(by_uni, query, "first_name")
        by_last_name == Filter(by_first_name, query, "last_name")
        by_email == Filter(by_last_name, query, "email")
        by_phone == Filter(by_email, query, "phone")
        by_birth_date == FilterStr(by_phone, query, "birth_date")
        nested == DOMAIN query \cap {"city", "country"}
        by_address ==
            SelectSeq(by_birth_date,
                      LAMBDA p : nested # {} =>
                         \E i \in DOMAIN p.addresses.list :
                            \A key \in nested :
                               p.addresses.list[i][key] = query[key])
    IN Response(200, "", {}, by_address)

\* list_persons(uni, first_name, last_name, email, phone, birth_date, city,
\* country)
list_persons(query) ==
    LET results == dict_values(persons)
        by_uni == Filter(results, query, "uni")
        by_first_name == Filter(by_uni, query, "first_name")
        by_last_name == Filter(by_first_name, query, "last_name")
        by_email == Filter(by_last_name, query, "email")
        by_phone == Filter(by_email, query, "phone")
        by_birth_date == FilterStr(by_phone, query, "birth_date")
        by_city == FilterAny(by_birth_date, query, "city")
        by_country == FilterAny(by_city, query, "country")
    IN Response(200, "", {}, by_country)

\* a value as the response's JSON shows it
jsonable(v) ==
    CASE IsUUID(v) -> Str(v.uuid)
      [] IsDate(v) -> Str(v.date)
      [] IsList(v) ->
            List([i \in DOMAIN v.list |->
                    [g \in DOMAIN v.list[i] |->
                        IF IsUUID(v.list[i][g]) THEN Str(v.list[i][g].uuid)
                        ELSE v.list[i][g]]])
      [] OTHER -> v

(* ------------------------------ inputs --------------------------------- *)

\* in a set of options: the key is not in the body
Unset == [unset |-> TRUE]

\* each of the bodies, with one of the options under key
With(bodies, key, options) ==
    {IF v = Unset THEN b ELSE b @@ (key :> v) : b \in bodies, v \in options}

\* the bodies with one key
Single(key, values) == {(key :> v) : v \in values}

AddressCreateSamples ==
    With(With(With(With({EmptyBody},
        "street", {Str("Main St")}),
        "city", {Unset, None, Str("NYC")}),
        "state", {Unset, Str("NY")}),
        "country", {Str("USA")})

AddressCreateBodies ==
    With(AddressCreateSamples, "id", {Unset} \cup {Str(u) : u \in ClientUuids})

AddressUpdateBodies ==
    {EmptyBody}
    \cup Single("street", {None, Str("Main St")})
    \cup Single("city", {None, Str(""), Number(123)})
    \cup Single("state", {None, Str("NY")})
    \cup Single("postal_code", {None})
    \cup Single("country", {None})
    \cup Single("id", {Str(u) : u \in ClientUuids})
    \cup {[city |-> Str(""), state |-> None]}

\* embedded addresses: without an id, and with one the client made up
EmbeddedAddresses ==
    With({[street |-> Str("Main St"), city |-> Str("NYC"), country |-> Str("USA")]},
         "id", {Unset} \cup {Str(u) : u \in ClientUuids})

PersonCreateSample ==
    [uni |-> Str("ab1234"), first_name |-> Str("Ada"), last_name |-> Str("Lovelace"),
     email |-> Str("ada@example.com")]

PersonCreateBodies ==
    {PersonCreateSample,
     [PersonCreateSample EXCEPT !.uni = Str("AB1234")],
     [uni |-> Str("ab1234"), first_name |-> Str("Ada"),
      email |-> Str("ada@example.com")]}
    \cup With({PersonCreateSample}, "addresses",
              {List(<<a>>) : a \in EmbeddedAddresses})
    \cup With({PersonCreateSample}, "id", {Str(u) : u \in ClientUuids})

PersonUpdateBodies ==
    {EmptyBody}
    \cup Single("uni", {None, Str("xyz9"), Str("AB1234")})
    \cup Single("first_name", {None})
    \cup Single("email", {None, Str("not-an-email")})
    \cup Single("phone", {None})
    \cup Single("birth_date", {None, Str("1815-12-10")})
    \cup Single("addresses",
                {None, List(<<>>)} \cup {List(<<a>>) : a \in EmbeddedAddresses})
    \cup Single("id", {Str(u) : u \in ClientUuids})

(* the inputs of ListSpec: two addresses and two persons that differ in the
   fields the filters read *)

ListAddressBodies ==
    {[id |-> Str(u), street |-> Str("Main St"), city |-> Str("NYC"),
      country |-> Str("USA")] : u \in ListClientUuids}
    \cup {[id |-> Str(u), street |-> Str("Main St"), city |-> Str("Paris"),
           state |-> Str("NY"), country |-> Str("USA")] : u \in ListClientUuids}

ListAddressUpdateBodies == {[city |-> Str("Paris")]}

\* GET /addresses?...: the parameters that are given
AddressQueries ==
    With(With(With({EmptyBody},
        "street", {Unset, Str("Main St")}),
        "city", {Unset, Str("NYC"), Str("Paris")}),
        "state", {Unset, Str("NY")})
    \cup Single("postal_code", {Str("10027")})
    \cup Single("country", {Str("USA"), Str("France")})
    \cup {[street |-> Str("Main St"), city |-> Str("Paris"), state |-> Str("NY"),
           postal_code |-> Str("10027"), country |-> Str("USA")]}

InNYC ==
    [id |-> Str("c1"), street |-> Str("Main St"), city |-> Str("NYC"),
     country |-> Str("USA")]
InParis ==
    [id |-> Str("c2"), street |-> Str("Rue Cler"), city |-> Str("Paris"),
     country |-> Str("France")]

ListPersonBodies ==
    {PersonCreateSample @@ [addresses |-> List(<<InNYC, InParis>>)],
     [PersonCreateSample EXCEPT !.uni = Str("xyz9")]
        @@ [addresses |-> List(<<InNYC>>)],
     PersonCreateSample @@ [birth_date |-> Str("1815-12-10")]}

ListPersonUpdateBodies == {[addresses |-> List(<<>>)]}

\* GET /persons?...: the parameters that are given
PersonQueries ==
    With(With(With(With({EmptyBody},
        "uni", {Unset, Str("ab1234")}),
        "birth_date", {Unset, Str("1815-12-10")}),
        "city", {Unset, Str("NYC")}),
        "country", {Unset, Str("USA"), Str("France")})
    \cup Single("first_name", {Str("Ada")})
    \cup Single("last_name", {Str("Byron")})
    \cup Single("email", {Str("ada@example.com")})
    \cup Single("phone", {Str("+1-212-555-0199")})
    \cup Single("birth_date", {Str("None")})
    \cup Single("city", {Str("Paris")})

(* the inputs of ValidatorSpec: payloads that are valid but for the
   institutional id or the course code, which is one of the pattern strings
   or of the strings the spec names *)

UniStrings == PatternStrings \cup {"ab1234", "AB1234"}
CourseCodeStrings == PatternStrings \cup {"COMS4153", "coms4153"}

UniCreateBodies == {[PersonCreateSample EXCEPT !.uni = Str(s)] : s \in UniStrings}
UniUpdateBodies == {[uni |-> Str(s)] : s \in UniStrings}

CourseCreateBodies ==
    {[course_code |-> Str(s), title |-> Str("Cloud Computing"),
      credits |-> Number(3)] : s \in CourseCodeStrings}
CourseUpdateBodies == {[course_code |-> Str(s)] : s \in CourseCodeStrings}

(* ------------------------------ actions -------------------------------- *)

\* the record of a successful create, kept until the entry is written again
Created(store, record, payload) ==
    [store |-> store, id |-> record.id, payload |-> payload, returned |-> record]

Init ==
    /\ addresses = <<>>
    /\ persons = <<>>
    /\ now = 0
    /\ uuids = 0
    /\ request = NoRequest
    /\ response = NoResponse
    /\ created = {}

\* POST /addresses
PostAddress(body) ==
    /\ Idle
    /\ "id" \notin DOMAIN body => uuids < MaxUuid
    /\ LET errors == Errors(AddressCreate, body)
           result == IF errors # {}
                     THEN [addresses |-> addresses,
                           response |-> RequestValidationError(errors)]
                     ELSE create_address(body)
       IN /\ addresses' = result.addresses
          /\ response' = result.response
          /\ uuids' = IF result.response.status = 201 /\ "id" \notin DOMAIN body
                      THEN uuids + 1 ELSE uuids
          /\ created' = IF result.response.status = 201
                        THEN created \cup
                             {Created("addresses", result.response.body[1], body)}
                        ELSE created
          /\ now' = IF result.response.status = 201 THEN now + 1 ELSE now
    /\ request' = Request("create_address", None, body)
    /\ UNCHANGED persons

\* GET /addresses/{address_id}
GetAddress(address_id) ==
    /\ Idle
    /\ response' = get_address(address_id)
    /\ request' = Request("get_address", address_id, EmptyBody)
    /\ UNCHANGED <<addresses, persons, now, uuids, created>>

\* PATCH /addresses/{address_id}
PatchAddress(address_id, body) ==
    /\ Idle
    /\ LET errors == Errors(AddressUpdate, body)
           result == IF errors # {}
                     THEN [addresses |-> addresses,
                           response |-> RequestValidationError(errors)]
                     ELSE update_address(address_id, body)
       IN /\ addresses' = result.addresses
          /\ response' = result.response
          /\ created' = IF result.response.status = 200
                        THEN {c \in created :
                                 ~(c.store = "addresses" /\ c.id = address_id)}
                        ELSE created
    /\ request' = Request("update_address", address_id, body)
    /\ UNCHANGED <<persons, now, uuids>>

\* POST /persons, while uuid4 has identifiers left out of max
PostPersonWithin(body, max) ==
    /\ Idle
    /\ uuids + Generated(body) < max
    /\ LET errors == Errors(PersonCreate, body)
           result == IF errors # {}
                     THEN [persons |-> persons,
                           response |-> RequestValidationError(errors)]
                     ELSE create_person(body)
       IN /\ persons' = result.persons
          /\ response' = result.response
          /\ uuids' = IF result.response.status = 201
                      THEN uuids + Generated(body) + 1 ELSE uuids
          /\ created' = IF result.response.status = 201
                        THEN created \cup
                             {Created("persons", result.response.body[1], body)}
                        ELSE created
          /\ now' = IF result.response.status = 201 THEN now + 1 ELSE now
    /\ request' = Request("create_person", None, body)
    /\ UNCHANGED addresses

\* POST /persons
PostPerson(body) == PostPersonWithin(body, MaxUuid)

\* GET /persons/{person_id}
GetPerson(person_id) ==
    /\ Idle
    /\ response' = get_person(person_id)
    /\ request' = Request("get_person", person_id, EmptyBody)
    /\ UNCHANGED <<addresses, persons, now, uuids, created>>

\* PATCH /persons/{person_id}, while uuid4 has identifiers left out of max
PatchPersonWithin(person_id, body, max) ==
    /\ Idle
    /\ uuids + Generated(body) <= max
    /\ LET errors == Errors(PersonUpdate, body)
           result == IF errors # {}
                     THEN [persons |-> persons,
                           response |-> RequestValidationError(errors)]
                     ELSE update_person(person_id, body)
       IN /\ persons' = result.persons
          /\ response' = result.response
          /\ uuids' = IF result.response.status = 200
                      THEN uuids + Generated(body) ELSE uuids
          /\ created' = IF result.response.status = 200
                        THEN {c \in created :
                                 ~(c.store = "persons" /\ c.id = person_id)}
                        ELSE created
    /\ request' = Request("update_person", person_id, body)
    /\ UNCHANGED <<addresses, now>>

\* PATCH /persons/{person_id}
PatchPerson(person_id, body) == PatchPersonWithin(person_id, body, MaxUuid)

\* GET /addresses
ListAddresses(query) ==
    /\ Idle
    /\ response' = list_addresses(query)
    /\ request' = Request("list_addresses", None, query)
    /\ UNCHANGED <<addresses, persons, now, uuids, created>>

\* GET /persons
ListPersons(query) ==
    /\ Idle
    /\ response' = list_persons(query)
    /\ request' = Request("list_persons", None, query)
    /\ UNCHANGED <<addresses, persons, now, uuids, created>>

\* CourseCreate(**body)
NewCourseCreate(body) ==
    /\ Idle
    /\ LET errors == Errors(CourseCreate, body)
       IN response' = IF errors # {}
                      THEN ValidationError(errors)
                      ELSE Validated(New(CourseCreate, body, now, uuids))
    /\ request' = Request("CourseCreate", None, body)
    /\ UNCHANGED <<addresses, persons, now, uuids, created>>

\* CourseUpdate(**body)
NewCourseUpdate(body) ==
    /\ Idle
    /\ LET errors == Errors(CourseUpdate, body)
       IN response' = IF errors # {}
                      THEN ValidationError(errors)
                      ELSE Validated(New(CourseUpdate, body, now, uuids))
    /\ request' = Request("CourseUpdate", None, body)
    /\ UNCHANGED <<addresses, persons, now, uuids, created>>

\* the creates that succeeded and whose record is in no store any more
Lost == now - (Len(addresses) + Len(persons))

\* uuid4 draws at random, and nothing keeps a draw from being an identifier
\* it has drawn before: its next identifier is its last one again
Collide ==
    /\ Idle
    /\ uuids > 0
    /\ Lost < MaxRepeat
    /\ uuids' = uuids - 1
    /\ UNCHANGED <<addresses, persons, now, request, response, created>>

\* the response goes out; the server waits for the next request
Respond ==
    /\ ~Idle
    /\ request' = NoRequest
    /\ response' = NoResponse
    /\ UNCHANGED <<addresses, persons, now, uuids, created>>

Next ==
    \/ \E body \in AddressCreateBodies : PostAddress(body)
    \/ \E address_id \in Uuids : GetAddress(address_id)
    \/ \E address_id \in Uuids, body \in AddressUpdateBodies :
          PatchAddress(address_id, body)
    \/ \E body \in PersonCreateBodies : PostPerson(body)
    \/ \E person_id \in Uuids : GetPerson(person_id)
    \/ \E person_id \in Uuids, body \in PersonUpdateBodies :
          PatchPerson(person_id, body)
    \/ Respond

Spec == Init /\ [][Next]_vars

\* the operations on two addresses and two persons, the lists included
ListNext ==
    \/ \E body \in ListAddressBodies : PostAddress(body)
    \/ \E address_id \in ListUuids : GetAddress(address_id)
    \/ \E address_id \in ListUuids, body \in ListAddressUpdateBodies :
          PatchAddress(address_id, body)
    \/ \E query \in AddressQueries : ListAddresses(query)
    \/ \E body \in ListPersonBodies : PostPersonWithin(body, MaxListUuid)
    \/ \E person_id \in ListUuids : GetPerson(person_id)
    \/ \E person_id \in ListUuids, body \in ListPersonUpdateBodies :
          PatchPersonWithin(person_id, body, MaxListUuid)
    \/ \E query \in PersonQueries : ListPersons(query)
    \/ Respond

ListSpec == Init /\ [][ListNext]_vars

\* the creates and the reads of one record, with a uuid4 that may repeat an
\* identifier
CollisionNext ==
    \/ \E body \in AddressCreateBodies : PostAddress(body)
    \/ \E address_id \in Uuids : GetAddress(address_id)
    \/ \E body \in PersonCreateBodies : PostPerson(body)
    \/ \E person_id \in Uuids : GetPerson(person_id)
    \/ Collide
    \/ Respond

CollisionSpec == Init /\ [][CollisionNext]_vars

\* the shapes that hold an institutional id or a course code, given the
\* pattern strings
ValidatorNext ==
    \/ \E body \in UniCreateBodies : PostPerson(body)
    \/ \E body \in UniUpdateBodies : PatchPerson(uuid4(0), body)
    \/ \E body \in CourseCreateBodies : NewCourseCreate(body)
    \/ \E body \in CourseUpdateBodies : NewCourseUpdate(body)
    \/ Respond

ValidatorSpec == Init /\ [][ValidatorNext]_vars

(* ------------------------------ properties ----------------------------- *)

Succeeded == response.status \in {200, 201}

\* the value a body gives for a field is the value the record holds: an
\* embedded address of the body may leave keys out, which the record fills in
Holds(stored, supplied) ==
    IF IsList(supplied) /\ IsList(stored)
    THEN /\ Len(stored.list) = Len(supplied.list)
         /\ \A i \in DOMAIN supplied.list :
               \A g \in DOMAIN supplied.list[i] \cap DOMAIN AddressBase :
                  jsonable(stored.list[i][g]) = supplied.list[i][g]
    ELSE jsonable(stored) = supplied

\* the record new is old with the fields of model replaced that body supplies
Merged(model, old, new, body) ==
    \A f \in DOMAIN model :
       IF f \in DOMAIN body THEN Holds(new[f], body[f]) ELSE new[f] = old[f]

\* C1: after a PATCH of an address or a person that succeeds, every updatable
\* field of the stored record holds the body's value if the body supplies the
\* field (null, the empty string and a whole list of addresses included) and
\* the value it held before if the body leaves the field out.
C1_MergeCorrectness ==
    [][/\ (request'.op = "update_address" /\ response'.status = 200) =>
            Merged(AddressUpdate, Get(addresses, request'.id),
                   Get(addresses', request'.id), request'.body)
       /\ (request'.op = "update_person" /\ response'.status = 200) =>
            Merged(PersonUpdate, Get(persons, request'.id),
                   Get(persons', request'.id), request'.body)]_vars

\* a PATCH that sets city to the empty string and state to null has gone
\* through, and street, which it left out, is still there
C1_Witness ==
    /\ request.op = "update_address"
    /\ request.body = [city |-> Str(""), state |-> None]
    /\ response.status = 200
    /\ Get(addresses, request.id).city = Str("")
    /\ Get(addresses, request.id).state = None
    /\ Get(addresses, request.id).street = Str("Main St")

\* every entry of old but the one under key is in new as it was, and new has
\* no other key than those and key
OnlyEntryChanged(old, new, key) ==
    /\ Keys(new) = Keys(old) \cup {key}
    /\ \A k \in Keys(old) \ {key} : Get(new, k) = Get(old, k)

\* C2: a create or a PATCH on addresses or persons either succeeds and changes
\* nothing but the entry it is for, or fails and leaves both stores as they
\* were; a PATCH whose merged record fails validation leaves the record as
\* it was.
C2_NoPartialFailure ==
    [][/\ request'.op \in {"create_address", "update_address"} =>
            IF response'.status \in {200, 201}
            THEN /\ persons' = persons
                 /\ OnlyEntryChanged(addresses, addresses', response'.body[1].id)
                 /\ request'.op = "update_address" =>
                       response'.body[1].id = request'.id
            ELSE addresses' = addresses /\ persons' = persons
       /\ request'.op \in {"create_person", "update_person"} =>
            IF response'.status \in {200, 201}
            THEN /\ addresses' = addresses
                 /\ OnlyEntryChanged(persons, persons', response'.body[1].id)
                 /\ request'.op = "update_person" =>
                       response'.body[1].id = request'.id
            ELSE addresses' = addresses /\ persons' = persons]_vars

\* a PATCH with an explicit null for city has failed, and the city is there
C2_Witness ==
    /\ request.op = "update_address"
    /\ request.body = [city |-> None]
    /\ request.id \in Keys(addresses)
    /\ ~Succeeded
    /\ IsStr(Get(addresses, request.id).city)

\* the request fails for a validation reason: the body is not of the shape of
\* the request, or the PATCH gives null to a field of an entry that the Read
\* shape does not allow to be null
NullFor(read, body) ==
    \E f \in DOMAIN body \cap DOMAIN read :
       body[f] = None /\ ~TypeOK(read[f].type, None)

ValidationFailure ==
    \/ request.op = "create_address" /\ Errors(AddressCreate, request.body) # {}
    \/ request.op = "create_person" /\ Errors(PersonCreate, request.body) # {}
    \/ /\ request.op = "update_address"
       /\ \/ Errors(AddressUpdate, request.body) # {}
          \/ request.id \in Keys(addresses) /\ NullFor(AddressRead, request.body)
    \/ /\ request.op = "update_person"
       /\ \/ Errors(PersonUpdate, request.body) # {}
          \/ request.id \in Keys(persons) /\ NullFor(PersonRead, request.body)

\* C3: a request that fails for a validation reason is answered with a 4xx
\* that names the fields, never with a server error.
C3_ValidationReported ==
    ValidationFailure =>
        response.status \in 400..499 /\ response.errors # {}

\* C4: the identifier of a record that a create stores is generated by the
\* server: it is the one uuid4 makes for this request, it is not a value of
\* the request body, and it was no key of the store before.
C4_ServerGeneratedId ==
    [][(request'.op \in {"create_address", "create_person"}
           /\ response'.status = 201) =>
          LET id == response'.body[1].id
              store == IF request'.op = "create_address"
                       THEN addresses ELSE persons
          IN /\ id \notin Keys(store)
             /\ id \in {uuid4(n) : n \in uuids..(uuids' - 1)}
             /\ \A k \in DOMAIN request'.body :
                   request'.body[k] # Str(id.uuid)]_vars

\* each entry of the store is under the identifier of its record
KeyIsId(store) == \A i \in DOMAIN store : store[i][2].id = store[i][1]

\* C5: every entry of addresses and persons is under the identifier of its
\* record, and the record a PATCH returns has the identifier of the path,
\* whatever "id" the body holds.
C5_IdentifierFromPath ==
    /\ KeyIsId(addresses)
    /\ KeyIsId(persons)
    /\ (request.op \in {"update_address", "update_person"} /\ Succeeded) =>
          response.body[1].id = request.id

\* a PATCH whose body holds another "id" than the path has gone through
C5_Witness ==
    /\ request.op \in {"update_address", "update_person"}
    /\ "id" \in DOMAIN request.body
    /\ request.body["id"] # Str(request.id.uuid)
    /\ response.status = 200

\* the records that store holds before and after a step keep created_at
CreatedAtKept(old, new) ==
    \A k \in Keys(old) \cap Keys(new) :
       Get(new, k).created_at = Get(old, k).created_at

\* C6: created_at is set at creation and no step changes it, a PATCH that
\* succeeds included.
C6_CreatedAtFixed ==
    [][/\ CreatedAtKept(addresses, addresses')
       /\ CreatedAtKept(persons, persons')
       /\ Keys(addresses) \subseteq Keys(addresses')
       /\ Keys(persons) \subseteq Keys(persons')]_vars

\* a PATCH has gone through at a later reading of the clock than the one the
\* record was created at
C6_Witness ==
    /\ request.op = "update_address"
    /\ response.status = 200
    /\ response.body[1].created_at.datetime < now
    /\ Get(addresses, request.id).created_at = response.body[1].created_at

\* C7: a PATCH that succeeds changes updated_at of the record.
C7_UpdatedAtChanges ==
    [][/\ (request'.op = "update_address" /\ response'.status = 200) =>
            Get(addresses', request'.id).updated_at
               # Get(addresses, request'.id).updated_at
       /\ (request'.op = "update_person" /\ response'.status = 200) =>
            Get(persons', request'.id).updated_at
               # Get(persons, request'.id).updated_at]_vars

\* C8: a GET of a record that was created and not written since returns the
\* record the create returned, identifier and timestamps included, and the
\* fields the payload supplied hold the payload's values.
C8_CreateThenGet ==
    \A c \in created :
       (/\ request.op = IF c.store = "addresses" THEN "get_address" ELSE "get_person"
        /\ request.id = c.id) =>
          /\ response.status = 200
          /\ response.body[1] = c.returned
          /\ \A f \in DOMAIN c.payload \cap
                     DOMAIN (IF c.store = "addresses"
                             THEN AddressCreate ELSE PersonCreate) :
                Holds(response.body[1][f], c.payload[f])

\* a person created with an embedded address is read back
C8_Witness ==
    /\ request.op = "get_person"
    /\ response.status = 200
    /\ \E c \in created :
          /\ c.store = "persons"
          /\ c.id = request.id
          /\ "addresses" \in DOMAIN c.payload

\* C9 as stated: a GET or PATCH of an identifier that is no key of its store is
\* answered 404 with the detail of the store, and both stores stay as they
\* were.
C9_NotFound ==
    [][/\ (request'.op \in {"get_address", "update_address"}
           /\ request'.id \notin Keys(addresses)) =>
             /\ response' = HTTPException(404, "Address not found")
             /\ addresses' = addresses /\ persons' = persons
       /\ (request'.op \in {"get_person", "update_person"}
           /\ request'.id \notin Keys(persons)) =>
             /\ response' = HTTPException(404, "Person not found")
             /\ addresses' = addresses /\ persons' = persons]_vars

\* the body of the request is of the shape its handler takes
BodyAccepted(req) ==
    CASE req.op = "create_address" -> Errors(AddressCreate, req.body) = {}
      [] req.op = "update_address" -> Errors(AddressUpdate, req.body) = {}
      [] req.op = "create_person" -> Errors(PersonCreate, req.body) = {}
      [] req.op = "update_person" -> Errors(PersonUpdate, req.body) = {}
      [] OTHER -> TRUE

\* C9 as amended: a GET, or a PATCH with a body the Update shape accepts, of an
\* identifier that is no key of its store is answered 404 with the detail of
\* the store; a PATCH with a body the Update shape rejects is answered 422;
\* either way both stores stay as they were.
C9_NotFoundAccepted ==
    [][/\ (request'.op \in {"get_address", "update_address"}
           /\ request'.id \notin Keys(addresses)) =>
             /\ response' = IF BodyAccepted(request')
                             THEN HTTPException(404, "Address not found")
                             ELSE RequestValidationError(response'.errors)
             /\ addresses' = addresses /\ persons' = persons
       /\ (request'.op \in {"get_person", "update_person"}
           /\ request'.id \notin Keys(persons)) =>
             /\ response' = IF BodyAccepted(request')
                             THEN HTTPException(404, "Person not found")
                             ELSE RequestValidationError(response'.errors)
             /\ addresses' = addresses /\ persons' = persons]_vars

\* a PATCH of an address that does not exist is answered 404
C9_Witness ==
    /\ request.op = "update_address"
    /\ request.id \notin Keys(addresses)
    /\ request.body = [city |-> Str("")]
    /\ response.status = 404

\* the identifier of the body is a key of addresses
DuplicateId(req) ==
    /\ req.op = "create_address"
    /\ "id" \in DOMAIN req.body
    /\ IsStr(req.body["id"])
    /\ UUID(req.body["id"].str) \in Keys(addresses)

\* C10 as stated: a POST /addresses with an identifier that is a key of
\* addresses is answered 400 and the stores stay as they were.
C10_DuplicateId ==
    [][DuplicateId(request') =>
          /\ response'.status = 400
          /\ addresses' = addresses /\ persons' = persons]_vars

\* C10 as amended: a POST /addresses with an identifier that is a key of
\* addresses is answered 400 when the Create shape accepts the body and 422
\* when it does not, and the stores stay as they were.
C10_DuplicateIdAccepted ==
    [][DuplicateId(request') =>
          /\ response'.status = IF BodyAccepted(request') THEN 400 ELSE 422
          /\ addresses' = addresses /\ persons' = persons]_vars

\* a second POST with the identifier of an address is answered 400, and the
\* address is the one the first POST made
C10_Witness ==
    /\ request.op = "create_address"
    /\ response.status = 400
    /\ \E c \in created :
          /\ c.store = "addresses"
          /\ Str(c.id.uuid) = request.body["id"]
          /\ Get(addresses, c.id) = c.returned

\* the records of a sequence
Range(seq) == {seq[i] : i \in DOMAIN seq}

\* the address has the value of every parameter of the query
AddressMatches(a, query) == \A key \in DOMAIN query : a[key] = query[key]

\* the person has the value of every parameter of the query: a birth date
\* as the ISO string of the date, a city or country in one of the embedded
\* addresses
PersonMatches(p, query) ==
    \A key \in DOMAIN query :
       IF key \in {"city", "country"}
       THEN \E i \in DOMAIN p.addresses.list :
               p.addresses.list[i][key] = query[key]
       ELSE jsonable(p[key]) = query[key]

\* C11: GET /addresses and GET /persons return exactly the stored records
\* that have the value of every parameter supplied, each once, and all stored
\* records when no parameter is supplied.
C11_FilterConjunction ==
    /\ request.op = "list_addresses" =>
          /\ response.status = 200
          /\ Range(response.body) =
                {a \in Range(dict_values(addresses)) :
                    AddressMatches(a, request.body)}
          /\ Len(response.body) = Cardinality(Range(response.body))
    /\ request.op = "list_persons" =>
          /\ response.status = 200
          /\ Range(response.body) =
                {p \in Range(dict_values(persons)) :
                    PersonMatches(p, request.body)}
          /\ Len(response.body) = Cardinality(Range(response.body))

\* the keys of a dict in its order
KeyOrder(dict) == [i \in DOMAIN dict |-> dict[i][1]]

\* the records are in the order of their creation: each was created at a
\* later reading of the clock than the ones before it
InCreationOrder(records) ==
    \A i, j \in DOMAIN records :
       i < j => records[i].created_at.datetime < records[j].created_at.datetime

\* C12: the stores hold their records in the order of creation, GET /addresses
\* and GET /persons return the records they select in that order, and a PATCH
\* that succeeds leaves every record at its position.
C12_InsertionOrder ==
    [][/\ InCreationOrder(dict_values(addresses'))
       /\ InCreationOrder(dict_values(persons'))
       /\ request'.op \in {"list_addresses", "list_persons"} =>
             InCreationOrder(response'.body)
       /\ (request'.op \in {"update_address", "update_person"}
           /\ response'.status = 200) =>
             /\ KeyOrder(addresses') = KeyOrder(addresses)
             /\ KeyOrder(persons') = KeyOrder(persons)]_vars

\* both stores hold two records, the first of each was patched after the
\* second was created, and GET /addresses returns the two addresses
C12_Witness ==
    /\ request.op = "list_addresses"
    /\ Len(response.body) = 2
    /\ Len(addresses) = 2
    /\ Len(persons) = 2
    /\ \A c \in created : c.id # addresses[1][1] /\ c.id # persons[1][1]
    /\ \E c \in created : c.store = "addresses" /\ c.id = addresses[2][1]
    /\ \E c \in created : c.store = "persons" /\ c.id = persons[2][1]

\* the response of a GET of one record is the record the store holds under
\* the identifier, as it is, and 404 when there is none
ReturnsStored(store, id, resp) ==
    IF id \in Keys(store)
    THEN resp.status = 200 /\ resp.body = <<Get(store, id)>>
    ELSE resp.status = 404 /\ resp.body = <<>>

\* C13: a GET of one address or person and the two lists leave both stores as
\* they were, and what they return are records of the store as they are
\* stored, timestamps included; so two GETs of an identifier with no write in
\* between, which read the same store, return identical records.
C13_ReadIdempotent ==
    [][request'.op \in {"get_address", "get_person",
                        "list_addresses", "list_persons"} =>
          /\ addresses' = addresses
          /\ persons' = persons
          /\ request'.op = "get_address" =>
                ReturnsStored(addresses, request'.id, response')
          /\ request'.op = "get_person" =>
                ReturnsStored(persons, request'.id, response')
          /\ request'.op = "list_addresses" =>
                Range(response'.body) \subseteq Range(dict_values(addresses))
          /\ request'.op = "list_persons" =>
                Range(response'.body) \subseteq Range(dict_values(persons))]_vars

\* an address is read back after another record was created since its own
\* creation, and its timestamps are those of its creation
C13_Witness ==
    /\ request.op = "get_address"
    /\ response.status = 200
    /\ response.body[1].created_at.datetime + 1 < now
    /\ response.body[1].updated_at = response.body[1].created_at

LowerAscii == {"a", "b", "c", "d", "e", "m", "n", "o", "s", "t", "x", "y", "z"}
UpperAscii == {"A", "B", "C", "M", "O", "S"}
DigitAscii == {"0", "1", "2", "3", "4", "5", "6", "7", "8", "9"}

\* the decimal digits of every script
DecimalDigit == DigitAscii \cup {"U+0663"}

\* the whole string is letters, as many as ks allows, and then digits, as
\* many as ms allows
LettersThenDigits(s, letter, ks, digit, ms) ==
    LET c == Chars(s)
        letters == {i \in DOMAIN c : c[i] \in letter}
        digits == {i \in DOMAIN c : c[i] \in digit}
    IN /\ letters \cup digits = DOMAIN c
       /\ Cardinality(letters) \in ks
       /\ Cardinality(digits) \in ms
       /\ \A i \in letters, j \in digits : i < j

\* the value a create or update shape was given for the field, when it is a
\* string
Given(ops, field) ==
    /\ request.op \in ops
    /\ field \in DOMAIN request.body
    /\ IsStr(request.body[field])

\* the shape took the value of the field
Accepted(field) == field \notin response.errors

EntriesKept(old, new) ==
    \A k \in Keys(old) : k \in Keys(new) /\ Get(new, k) = Get(old, k)

\* C15: a create of an address or a person whose identifier is a key of its
\* store fails, and no create replaces or removes an entry of a store.
C15_InsertChecked ==
    [][/\ request'.op = "create_address" =>
            /\ EntriesKept(addresses, addresses')
            /\ response'.status = 201 =>
                  response'.body[1].id \notin Keys(addresses)
       /\ request'.op = "create_person" =>
            /\ EntriesKept(persons, persons')
            /\ response'.status = 201 =>
                  response'.body[1].id \notin Keys(persons)]_vars

\* one of the embedded addresses of the person has the value under the key
SomeAddress(p, key, value) ==
    \E i \in 1..Len(p.addresses.list) : p.addresses.list[i][key] = value

\* the person passes the city and country parameters of the query, each on
\* its own
PassesNested(p, query) ==
    /\ "city" \in DOMAIN query => SomeAddress(p, "city", query["city"])
    /\ "country" \in DOMAIN query => SomeAddress(p, "country", query["country"])

\* C16: GET /persons with city, country or both returns only persons that
\* have an embedded address with the city and an embedded address, the same
\* or another, with the country, and with no other parameter it returns every
\* such person; a person with no address is not returned.
C16_NestedAddressFilter ==
    (request.op = "list_persons"
       /\ DOMAIN request.body \cap {"city", "country"} # {}) =>
        /\ \A i \in DOMAIN response.body :
              /\ PassesNested(response.body[i], request.body)
              /\ response.body[i].addresses.list # <<>>
        /\ DOMAIN request.body \subseteq {"city", "country"} =>
              \A j \in DOMAIN persons :
                 PassesNested(persons[j][2], request.body) =>
                    persons[j][2] \in Range(response.body)

\* GET /persons?city=NYC&country=France returns a person that has an address
\* in NYC and another in France and none in both, and does not return a stored
\* person that has no address
C16_Witness ==
    /\ request.op = "list_persons"
    /\ request.body = [city |-> Str("NYC"), country |-> Str("France")]
    /\ \E i \in DOMAIN response.body :
          \A k \in DOMAIN response.body[i].addresses.list :
             LET addr == response.body[i].addresses.list[k]
             IN addr.city # Str("NYC") \/ addr.country # Str("France")
    /\ \E j \in DOMAIN persons :
          /\ persons[j][2].addresses.list = <<>>
          /\ persons[j][2] \notin Range(response.body)

\* the fields of the record that the shape declares, as a payload
AsPayload(shape, record) == [f \in DOMAIN shape |-> record[f]]

\* C17: every address in the store has a street, a city and a country that
\* are strings, every person has an institutional id that matches the
\* pattern, a first name, a last name and an email that are strings and a
\* list of addresses, and the Create shape accepts the fields of every stored
\* record.
C17_StoredRecordsValid ==
    /\ \A i \in DOMAIN addresses :
          LET a == addresses[i][2]
          IN /\ IsStr(a.street) /\ IsStr(a.city) /\ IsStr(a.country)
             /\ Errors(AddressCreate, AsPayload(AddressCreate, a)) = {}
    /\ \A i \in DOMAIN persons :
          LET p == persons[i][2]
          IN /\ IsStr(p.uni)
             /\ LettersThenDigits(p.uni.str, LowerAscii, 2..3, DecimalDigit, 1..4)
             /\ IsStr(p.first_name) /\ IsStr(p.last_name) /\ IsStr(p.email)
             /\ IsList(p.addresses)
             /\ \A k \in DOMAIN p.addresses.list :
                   LET a == p.addresses.list[k]
                   IN IsStr(a.street) /\ IsStr(a.city) /\ IsStr(a.country)
             /\ Errors(PersonCreate, AsPayload(PersonCreate, p)) = {}

\* a PATCH that gives null for the institutional id of a stored person was
\* not accepted, and the person has the institutional id it had
C17_Witness ==
    /\ request.op = "update_person"
    /\ request.body = [uni |-> None]
    /\ request.id \in Keys(persons)
    /\ response.status = 500
    /\ Get(persons, request.id).uni = Str("ab1234")

====
